---- MODULE Spec2Model ----
(***************************************************************************)
(* TypingPulse: the typing-session state machine of App (the React         *)
(* component), with the helpers of utils (shuffleArray, calculateWPM,      *)
(* calculateAccuracy, saveScore, getScoreHistory) and the word generation  *)
(* service (generateThematicWords).                                        *)
(*                                                                         *)
(* One action is one event handler run to completion together with the     *)
(* render and the effects it triggers: React runs a handler, applies the   *)
(* queued state updates in order and flushes the effects of a discrete     *)
(* event before the next event is delivered.  Closures are modelled by     *)
(* what they captured: an interval callback keeps the endGame of the       *)
(* render in which startGame ran, an outstanding generation request keeps  *)
(* the initGame of the render in which the click happened.                 *)
(*                                                                         *)
(* Strings are sequences of one-character strings, indices of `words' and  *)
(* currentIndex are 0-based as in the source (words[i] is Word(i)).        *)
(***************************************************************************)
EXTENDS Integers, Sequences, FiniteSets, TLC

\* ------------------------------------------------------------------ bounds

\* Events of the user in one run: changes of the typing input and of the
\* topic field, button clicks, form submissions.  Ticks of the timer and
\* completions of word-generation requests are not counted.
MaxEvents == 3

\* ScoreEntry records created in one run (calls of endGame's stats updater).
MaxScores == 2

\* StoreSpec: calls of saveScore
MaxAppends == 102

\* PrefixSpec: length of the draft
MaxDraftLen == 5

\* ShuffleSpec: length of the list to shuffle
MaxShuffleLen == 3

\* Math.random() returns a multiple of 1 / RandDenom.
RandDenom == 4

\* --------------------------------------------------------------- constants

DEFAULT_WORDS == <<
    <<"t","h","e">>,
    <<"q","u","i","c","k">>,
    <<"b","r","o","w","n">>,
    <<"f","o","x">>,
    <<"j","u","m","p","s">>,
    <<"o","v","e","r">>,
    <<"t","h","e">>,
    <<"l","a","z","y">>,
    <<"d","o","g">>,
    <<"p","r","o","g","r","a","m","m","i","n","g">>,
    <<"j","a","v","a","s","c","r","i","p","t">>,
    <<"t","y","p","e","s","c","r","i","p","t">>,
    <<"r","e","a","c","t">>,
    <<"c","o","d","i","n","g">>,
    <<"d","e","v","e","l","o","p","e","r">>,
    <<"s","o","f","t","w","a","r","e">>,
    <<"e","n","g","i","n","e","e","r">>,
    <<"p","e","r","f","o","r","m","a","n","c","e">>,
    <<"i","n","t","e","r","f","a","c","e">>,
    <<"d","y","n","a","m","i","c">>,
    <<"c","o","m","p","o","n","e","n","t">>,
    <<"f","u","n","c","t","i","o","n">>,
    <<"v","a","r","i","a","b","l","e">>,
    <<"c","o","n","s","t","a","n","t">>,
    <<"d","a","t","a","b","a","s","e">>,
    <<"s","e","r","v","e","r">>,
    <<"c","l","o","u","d">>,
    <<"n","e","t","w","o","r","k">>,
    <<"s","e","c","u","r","i","t","y">>,
    <<"a","l","g","o","r","i","t","h","m">>,
    <<"d","e","s","i","g","n">>,
    <<"s","t","r","u","c","t","u","r","e">>,
    <<"s","y","s","t","e","m">>,
    <<"a","p","p","l","i","c","a","t","i","o","n">>,
    <<"m","o","b","i","l","e">>,
    <<"d","e","s","k","t","o","p">>,
    <<"b","r","o","w","s","e","r">>,
    <<"o","p","t","i","m","i","z","a","t","i","o","n">>,
    <<"r","e","n","d","e","r","i","n","g">>,
    <<"a","s","y","n","c","h","r","o","n","o","u","s">>
>>

TIME_OPTIONS == <<15, 30, 60, 120, 300>>

THEMES == {"random", "tech", "nature", "custom"}

\* useState(60) of timeLeft and of duration.
InitialDuration == 60

\* currentIndex + 10 > words.length
LookAhead == 10

\* val.length <= words[currentIndex].text.length + 3
SlackBuffer == 3

\* history.slice(-100)
HistoryCap == 100

\* ----------------------------------------------------------------- strings

SPACE == " "

EndsWithSpace(s) == Len(s) > 0 /\ s[Len(s)] = SPACE

RECURSIVE TrimStart(_)
TrimStart(s) == IF s # <<>> /\ Head(s) = SPACE THEN TrimStart(Tail(s)) ELSE s

RECURSIVE TrimEnd(_)
TrimEnd(s) ==
    IF s # <<>> /\ s[Len(s)] = SPACE THEN TrimEnd(SubSeq(s, 1, Len(s) - 1)) ELSE s

\* String.prototype.trim
Trim(s) == TrimEnd(TrimStart(s))

\* ------------------------------------------------------------------- utils

\* The values of Math.random(): k / RandDenom for k in RandomValues
RandomValues == {2}

\* Math.floor(Math.random() * (i + 1)) for Math.random() = k / RandDenom
RandomIndex(k, i) == (k * (i + 1)) \div RandDenom

\* A swap that forgets to write the second element.
Swap_Overwrite(a, i, j) == [a EXCEPT ![i + 1] = a[j + 1]]

Swap(a, i, j) == [a EXCEPT ![i + 1] = a[j + 1], ![j + 1] = a[i + 1]]

\* The loop of shuffleArray from index i down to 1; rnd[i] is the draw of
\* Math.random() in iteration i.
RECURSIVE ShuffleFrom(_, _, _)
ShuffleFrom(a, i, rnd) ==
    IF i > 0 THEN ShuffleFrom(Swap(a, i, RandomIndex(rnd[i], i)), i - 1, rnd)
    ELSE a

shuffleArray(array, rnd) == ShuffleFrom(array, Len(array) - 1, rnd)

\* The draws of Math.random() in one call of shuffleArray on n elements: the
\* same value in every iteration.
ConstantDraw(n, k) == [i \in 1..n |-> k]

RandomDraws(n) == {ConstantDraw(n, k) : k \in RandomValues}

\* What shuffleArray(array) can return
Shuffled(array) == {shuffleArray(array, rnd) : rnd \in RandomDraws(Len(array))}

\* A rounding that drops the fraction.
Round_Floor(num, den) == num \div den

\* Math.round of the non-negative quotient num / den
Round(num, den) == (2 * num + den) \div (2 * den)

calculateWPM(correctWords, timeInSeconds) ==
    IF timeInSeconds <= 0 THEN 0 ELSE Round(correctWords * 60, timeInSeconds)

calculateAccuracy(correct, incorrect) ==
    IF correct + incorrect = 0 THEN 0
    ELSE Round(correct * 100, correct + incorrect)

\* A slice that keeps the first n entries.
SliceFirst(h, n) == IF Len(h) <= n THEN h ELSE SubSeq(h, 1, n)

\* history.slice(-n)
SliceLast(h, n) == IF Len(h) <= n THEN h ELSE SubSeq(h, Len(h) - n + 1, Len(h))

\* saveScore: parse the stored list, push, store the last 100
saveScore(stored, score) == SliceLast(Append(stored, score), HistoryCap)


\* -------------------------------------------------- generateThematicWords

ToLower(c) == CASE c = "A" -> "a" [] c = "B" -> "b" [] c = "C" -> "c"
                [] c = "D" -> "d" [] OTHER -> c

toLowerCase(w) == [i \in 1..Len(w) |-> ToLower(w[i])]

\* filter(w => w.length > 1).map(w => w.toLowerCase()) on the tokens of the text
RECURSIVE FilterLower(_)
FilterLower(tokens) ==
    IF tokens = <<>> THEN <<>>
    ELSE (IF Len(Head(tokens)) > 1 THEN <<toLowerCase(Head(tokens))>> ELSE <<>>)
         \o FilterLower(Tail(tokens))

\* What the service answers: a failure (the call throws) or a text, given as
\* its tokens text.split(/\s+/).
ApiFailure == [ok |-> FALSE, tokens |-> <<>>]

ApiText(tokens) == [ok |-> TRUE, tokens |-> tokens]

\* A text of LookAhead words
TenWords ==
    << <<"a", "a">>, <<"a", "b">>, <<"a", "c">>, <<"a", "d">>, <<"b", "a">>,
       <<"b", "b">>, <<"b", "c">>, <<"b", "d">>, <<"c", "a">>, <<"c", "b">> >>

\* "".split(/\s+/) is [""]
Responses ==
    { ApiFailure,
      ApiText(<< <<>> >>),
      ApiText(<< <<"a">> >>),
      ApiText(<< <<"a">>, <<"A", "b">> >>),
      ApiText(TenWords) }

generateThematicWords(response) ==
    IF response.ok THEN FilterLower(response.tokens) ELSE <<>>

\* ------------------------------------------------------------------- state

VARIABLES
    status,         \* 'idle' | 'playing' | 'finished'
    words,          \* WordObject[]
    currentIndex,
    inputValue,
    timeLeft,
    duration,
    selectedTopic,
    customTopic,
    isLoading,
    history,        \* ScoreEntry[] of the component
    stats,          \* GameStats
    timerRef,       \* timerRef.current: 0 is null, else an interval id
    timers,         \* the running intervals: id -> what the callback captured
    nextTimerId,    \* the id the next setInterval returns
    requests,       \* outstanding generateThematicWords calls: id -> the
                    \* duration the initGame of their handler captured
    nextRequestId,  \* the calls made so far, plus one
    typing_scores,  \* localStorage 'typing_scores'
    scoreSeq,       \* ScoreEntry records created so far (id, timestamp)
    events,         \* events of the user so far
    mounted,        \* the App component is mounted
    malformed,      \* the 'typing_scores' item is a text JSON.parse rejects
                    \* (typing_scores is its value otherwise)
    thrown,         \* a call of saveScore or getScoreHistory has thrown
    callArray,      \* shuffleArray: the argument `array' of the last call
    newArray        \* shuffleArray: what the last call returned

vars == <<status, words, currentIndex, inputValue, timeLeft, duration,
          selectedTopic, customTopic, isLoading, history, stats, timerRef,
          timers, nextTimerId, requests, nextRequestId, typing_scores,
          scoreSeq, events, mounted, malformed, thrown, callArray, newArray>>

\* what initGame sets
sessionVars == <<status, words, currentIndex, inputValue, timeLeft, stats>>

timerVars == <<timerRef, timers, nextTimerId>>

scoreVars == <<history, typing_scores, scoreSeq>>

requestVars == <<requests, nextRequestId>>

\* the call frame of shuffleArray
callVars == <<callArray, newArray>>

pageVars == <<mounted, malformed, thrown>>

\* The duration buttons the user clicks
DurationChoices == {TIME_OPTIONS[1]}

CustomTopics == {"", "chess"}

ZeroStats == [wpm |-> 0, accuracy |-> 0, correctWords |-> 0,
              incorrectWords |-> 0, totalKeystrokes |-> 0, timeSpent |-> 0]

Word(i) == words[i + 1]

\* initGame: the shuffled list as pending WordObjects, the first one active
InitialWords(shuffled) ==
    [i \in 1..Len(shuffled) |->
        [text |-> shuffled[i],
         status |-> IF i = 1 THEN "active" ELSE "pending"]]

\* shuffleArray(DEFAULT_WORDS)
DefaultShuffles == Shuffled(DEFAULT_WORDS)

\* initGame of a render with duration d; `shuffled' is shuffleArray(baseWords)
initGame(shuffled, d) ==
    /\ words' = InitialWords(shuffled)
    /\ currentIndex' = 0
    /\ inputValue' = <<>>
    /\ timeLeft' = d
    /\ status' = "idle"
    /\ stats' = ZeroStats

Init ==
    /\ duration = InitialDuration
    /\ selectedTopic = "random"
    /\ customTopic = ""
    /\ isLoading = FALSE
    /\ history = <<>>
    /\ typing_scores = <<>>
    /\ scoreSeq = 0
    /\ events = 0
    /\ timerRef = 0
    /\ timers = <<>>
    /\ nextTimerId = 1
    /\ requests = <<>>
    /\ nextRequestId = 1
    /\ mounted = TRUE
    /\ malformed = FALSE
    /\ thrown = FALSE
    /\ callArray = <<>>
    /\ newArray = <<>>
    \* the mount effect has run initGame()
    /\ \E shuffled \in DefaultShuffles : words = InitialWords(shuffled)
    /\ currentIndex = 0
    /\ inputValue = <<>>
    /\ timeLeft = InitialDuration
    /\ status = "idle"
    /\ stats = ZeroStats


\* ------------------------------------------------------- startGame, endGame

\* One more event of the user, on the mounted component
UserEvent == mounted /\ events < MaxEvents /\ events' = events + 1

\* topic: selectedTopic === 'custom' ? customTopic : selectedTopic
ScoreTopic == IF selectedTopic = "custom" THEN customTopic ELSE selectedTopic

\* What the interval callback of startGame keeps: the endGame of the render in
\* which startGame ran, with that render's duration and topic.
Captured == [duration |-> duration, topic |-> ScoreTopic]

\* clearInterval(id)
ClearInterval(ts, id) == [i \in (DOMAIN ts) \ {id} |-> ts[i]]

\* setInterval(callback, 1000) of startGame, and timerRef.current = its id
StartInterval ==
    /\ timers' = timers @@ (nextTimerId :> Captured)
    /\ timerRef' = nextTimerId
    /\ nextTimerId' = nextTimerId + 1

\* The ScoreEntry the stats updater of endGame builds; `captured' is what
\* the endGame that runs was created with.
NewScore(prev, captured, seq) ==
    [id |-> seq,
     timestamp |-> seq,
     topic |-> captured.topic,
     wpm |-> calculateWPM(prev.correctWords, captured.duration),
     accuracy |-> calculateAccuracy(prev.correctWords, prev.incorrectWords),
     correctWords |-> prev.correctWords,
     incorrectWords |-> prev.incorrectWords,
     totalKeystrokes |-> prev.totalKeystrokes,
     timeSpent |-> captured.duration]

\* if (timerRef.current) clearInterval(timerRef.current)
TimersAfterEndGame == IF timerRef # 0 THEN ClearInterval(timers, timerRef) ELSE timers

\* endGame as created with `captured'
endGame(captured) ==
    LET newScore == NewScore(stats, captured, scoreSeq + 1)
    IN  /\ timers' = TimersAfterEndGame
        /\ status' = "finished"
        /\ stats' = [stats EXCEPT !.wpm = newScore.wpm,
                                  !.accuracy = newScore.accuracy]
        /\ typing_scores' = saveScore(typing_scores, newScore)
        /\ history' = Append(history, newScore)
        /\ scoreSeq' = scoreSeq + 1

\* The interval callback: setTimeLeft(prev => prev <= 1 ? (endGame(), 0) : prev - 1)
Tick(id) ==
    /\ id \in DOMAIN timers
    /\ IF ~mounted
       \* the callback still runs; the update of an unmounted component is
       \* dropped
       THEN UNCHANGED <<status, stats, timeLeft, timerVars, scoreVars>>
       ELSE IF timeLeft <= 1
       THEN /\ scoreSeq < MaxScores
            /\ endGame(timers[id])
            /\ timeLeft' = 0
            /\ UNCHANGED <<timerRef, nextTimerId>>
       ELSE /\ timeLeft' = timeLeft - 1
            /\ UNCHANGED <<status, stats, timerVars, scoreVars>>
    /\ UNCHANGED <<words, currentIndex, inputValue, duration, selectedTopic,
                   customTopic, isLoading, requestVars, events>>
    /\ UNCHANGED <<callVars, pageVars>>

\* -------------------------------------------------------- handleInputChange

\* A submission that marks every word correct.
WordsAfterSubmit_AlwaysCorrect(ws, idx, isCorrect) ==
    [i \in 1..Len(ws) |->
        IF i = idx + 1 THEN [ws[i] EXCEPT !.status = "correct"]
        ELSE IF i = idx + 2 /\ idx + 1 < Len(ws)
        THEN [ws[i] EXCEPT !.status = "active"]
        ELSE ws[i]]

\* setWords(prev => ...) of a submission at index idx
WordsAfterSubmit(ws, idx, isCorrect) ==
    [i \in 1..Len(ws) |->
        IF i = idx + 1
        THEN [ws[i] EXCEPT !.status = IF isCorrect THEN "correct" ELSE "incorrect"]
        ELSE IF i = idx + 2 /\ idx + 1 < Len(ws)
        THEN [ws[i] EXCEPT !.status = "active"]
        ELSE ws[i]]

\* A stats update that forgets to count an incorrect word.
StatsAfterSubmit_CorrectOnly(prev, isCorrect, typedWord) ==
    [prev EXCEPT
        !.correctWords = IF isCorrect THEN @ + 1 ELSE @,
        !.totalKeystrokes = @ + Len(typedWord) + 1]

\* setStats(prev => ...) of a submission
StatsAfterSubmit(prev, isCorrect, typedWord) ==
    [prev EXCEPT
        !.correctWords = IF isCorrect THEN @ + 1 ELSE @,
        !.incorrectWords = IF isCorrect THEN @ ELSE @ + 1,
        !.totalKeystrokes = @ + Len(typedWord) + 1]

\* An extension test without the look-ahead: only once the cursor is past
\* the end.
NeedsExtension_NoLookAhead(idx, ws) == idx > Len(ws)

\* An extension test on the cursor after the submission.
NeedsExtension_NewCursor(idx, ws) == idx + 1 + LookAhead > Len(ws)

\* if (currentIndex + 10 > words.length)
NeedsExtension(idx, ws) == idx + LookAhead > Len(ws)

\* shuffleArray(DEFAULT_WORDS).map(w => ({ text: w, status: 'pending' }))
ExtensionBatch(shuffled) ==
    [i \in 1..Len(shuffled) |-> [text |-> shuffled[i], status |-> "pending"]]

\* A draft test that lets one more character through.
DraftAccepted_OneMore(val, word) == Len(val) <= Len(word.text) + SlackBuffer + 1

\* val.length <= words[currentIndex].text.length + 3
DraftAccepted(val, word) == Len(val) <= Len(word.text) + SlackBuffer

\* The values of e.target.value the user produces while `text' is the word
\* to type: the word and a space, its first character and a space, a lone
\* space, its first character, and the word overtyped by three and by four
\* characters.
InputValues(text) ==
    { text \o <<SPACE>>,
      <<text[1], SPACE>>,
      <<SPACE>>,
      <<text[1]>>,
      text \o <<"z", "z", "z">>,
      text \o <<"z", "z", "z", "z">> }

handleInputChange(val, shuffled) ==
    /\ UserEvent
    \* the input is rendered while status !== 'finished', disabled={isLoading}
    /\ status # "finished"
    /\ ~isLoading
    /\ currentIndex < Len(words)
    /\ IF status = "idle"
       THEN /\ status' = "playing"
            /\ StartInterval
       ELSE UNCHANGED <<status, timerVars>>
    /\ IF EndsWithSpace(val)
       THEN LET typedWord == Trim(val)
                currentWord == Word(currentIndex).text
                isCorrect == typedWord = currentWord
                marked == WordsAfterSubmit(words, currentIndex, isCorrect)
            IN  /\ words' = IF NeedsExtension(currentIndex, words)
                            THEN marked \o ExtensionBatch(shuffled)
                            ELSE marked
                /\ stats' = StatsAfterSubmit(stats, isCorrect, typedWord)
                /\ currentIndex' = currentIndex + 1
                /\ inputValue' = <<>>
       ELSE /\ inputValue' = IF DraftAccepted(val, Word(currentIndex))
                             THEN val ELSE inputValue
            /\ UNCHANGED <<words, stats, currentIndex>>
    /\ UNCHANGED <<timeLeft, duration, selectedTopic, customTopic, isLoading,
                   requestVars, scoreVars>>
    /\ UNCHANGED <<callVars, pageVars>>

\* ------------------------------------------------------------ other events

\* History button: onClick={() => setStatus('idle')}
HistoryClick ==
    /\ UserEvent
    /\ status' = "idle"
    /\ UNCHANGED <<words, currentIndex, inputValue, timeLeft, stats, duration,
                   selectedTopic, customTopic, isLoading, requestVars, timerVars,
                   scoreVars>>
    /\ UNCHANGED <<callVars, pageVars>>

\* Duration button: setDuration(t); setTimeLeft(t).  A new duration makes a
\* new initGame, and the effect on [initGame] runs initGame().
DurationClick(t, shuffled) ==
    /\ UserEvent
    /\ status # "finished"
    /\ duration' = t
    /\ IF t # duration
       THEN initGame(shuffled, t)
       ELSE /\ timeLeft' = t
            /\ UNCHANGED <<status, words, currentIndex, inputValue, stats>>
    /\ UNCHANGED <<selectedTopic, customTopic, isLoading, requestVars, timerVars,
                   scoreVars>>
    /\ UNCHANGED <<callVars, pageVars>>

\* const newWords = await generateThematicWords(...): the call is made, and
\* the rest of the handler waits with the initGame of this render
StartRequest ==
    /\ requests' = requests @@ (nextRequestId :> duration)
    /\ nextRequestId' = nextRequestId + 1

\* handleThemeChange up to its await (tech, nature), or to its end
ThemeClick(themeId, shuffled) ==
    /\ UserEvent
    /\ status # "finished"
    /\ selectedTopic' = themeId
    /\ CASE themeId = "custom" ->
              UNCHANGED <<sessionVars, isLoading, requestVars>>
         [] themeId = "random" ->
              /\ initGame(shuffled, duration)
              /\ isLoading' = FALSE
              /\ UNCHANGED requestVars
         [] OTHER ->
              /\ isLoading' = TRUE
              /\ StartRequest
              /\ UNCHANGED sessionVars
    /\ UNCHANGED <<duration, customTopic, timerVars, scoreVars>>
    /\ UNCHANGED <<callVars, pageVars>>

\* The custom topic field: onChange={(e) => setCustomTopic(e.target.value)}
CustomTopicChange(text) ==
    /\ UserEvent
    /\ status # "finished"
    /\ selectedTopic = "custom"
    /\ customTopic' = text
    /\ UNCHANGED <<sessionVars, duration, selectedTopic, isLoading, requestVars,
                   timerVars, scoreVars>>
    /\ UNCHANGED <<callVars, pageVars>>

\* handleCustomTopicSubmit up to its await; the Generate button is
\* disabled={isLoading}
CustomTopicSubmit ==
    /\ UserEvent
    /\ status # "finished"
    /\ selectedTopic = "custom"
    /\ ~isLoading
    /\ customTopic # ""
    /\ isLoading' = TRUE
    /\ StartRequest
    /\ UNCHANGED <<sessionVars, duration, selectedTopic, customTopic,
                   timerVars, scoreVars>>
    /\ UNCHANGED <<callVars, pageVars>>

\* What generateThematicWords can resolve to
GeneratedWords == {generateThematicWords(response) : response \in Responses}

\* An initGame that takes what it is given, without the default list.
BaseWords_NoFallback(newWords) == newWords

\* initGame(newWords.length > 0 ? newWords : undefined), where
\* baseWords = customWords || DEFAULT_WORDS
BaseWords(newWords) == IF Len(newWords) > 0 THEN newWords ELSE DEFAULT_WORDS

\* shuffleArray(baseWords) of that initGame, over what the service resolves to
GeneratedShuffles ==
    { shuffleArray(BaseWords(newWords), ConstantDraw(Len(BaseWords(newWords)), k)) :
        newWords \in GeneratedWords, k \in RandomValues }

\* The rest of handleThemeChange / handleCustomTopicSubmit after the await:
\* initGame(newWords.length > 0 ? newWords : undefined); setIsLoading(false),
\* with the initGame of the render of the click; `shuffled' is its
\* shuffleArray(baseWords).
GenerationComplete(id, shuffled) ==
    /\ id \in DOMAIN requests
    /\ requests' = [i \in (DOMAIN requests) \ {id} |-> requests[i]]
    /\ UNCHANGED nextRequestId
    /\ IF mounted
       THEN /\ initGame(shuffled, requests[id])
            /\ isLoading' = FALSE
       \* the updates of an unmounted component are dropped
       ELSE UNCHANGED <<sessionVars, isLoading>>
    /\ UNCHANGED <<duration, selectedTopic, customTopic, timerVars, scoreVars,
                   events>>
    /\ UNCHANGED <<callVars, pageVars>>

\* New Race button: onClick={() => initGame()}
NewRaceClick(shuffled) ==
    /\ UserEvent
    /\ status = "finished"
    /\ initGame(shuffled, duration)
    /\ UNCHANGED <<duration, selectedTopic, customTopic, isLoading, requestVars,
                   timerVars, scoreVars>>
    /\ UNCHANGED <<callVars, pageVars>>

\* Leaderboard Reset: localStorage.removeItem('typing_scores'); setHistory([])
LeaderboardReset ==
    /\ UserEvent
    /\ status = "finished"
    /\ typing_scores' = <<>>
    /\ history' = <<>>
    /\ UNCHANGED <<sessionVars, duration, selectedTopic, customTopic,
                   isLoading, requestVars, timerVars, scoreSeq>>
    /\ UNCHANGED <<callVars, pageVars>>

\* ----------------------------------------------------------------- Live HUD

\* {calculateWPM(stats.correctWords, duration - timeLeft)}
LiveWpm == calculateWPM(stats.correctWords, duration - timeLeft)

\* {calculateAccuracy(stats.correctWords, stats.incorrectWords)}
LiveAccuracy == calculateAccuracy(stats.correctWords, stats.incorrectWords)

\* A matching loop without the test that all earlier characters matched.
RECURSIVE MatchLoop_AnyPosition(_, _, _, _)
MatchLoop_AnyPosition(wordText, typed, i, matchPart) ==
    IF i < Len(typed)
    THEN MatchLoop_AnyPosition(wordText, typed, i + 1,
            IF i < Len(wordText) /\ typed[i + 1] = wordText[i + 1]
            THEN Append(matchPart, typed[i + 1]) ELSE matchPart)
    ELSE matchPart

\* for (let i = 0; i < typed.length; i++)
\*   if (i < wordText.length && typed[i] === wordText[i] && matchPart.length === i)
\*     matchPart += typed[i];
RECURSIVE MatchLoop(_, _, _, _)
MatchLoop(wordText, typed, i, matchPart) ==
    IF i < Len(typed)
    THEN MatchLoop(wordText, typed, i + 1,
            IF i < Len(wordText) /\ typed[i + 1] = wordText[i + 1]
                                /\ Len(matchPart) = i
            THEN Append(matchPart, typed[i + 1]) ELSE matchPart)
    ELSE matchPart

\* matchPart of the current word as rendered
MatchPart == MatchLoop(Word(currentIndex).text, inputValue, 0, <<>>)

\* remainingPart = wordText.substring(matchPart.length)
RemainingPart ==
    SubSeq(Word(currentIndex).text, Len(MatchPart) + 1, Len(Word(currentIndex).text))

\* React unmounts App: the cleanups of its effects run, and none of its
\* effects returns one
Unmount ==
    /\ mounted
    /\ events < MaxEvents
    /\ events' = events + 1
    /\ mounted' = FALSE
    /\ UNCHANGED <<sessionVars, duration, selectedTopic, customTopic, isLoading,
                   timerVars, requestVars, scoreVars, malformed, thrown,
                   callVars>>

\* ------------------------------------------------------------ specification

Next ==
    \/ \E val \in InputValues(Word(currentIndex).text), shuffled \in DefaultShuffles :
          handleInputChange(val, shuffled)
    \/ \E id \in DOMAIN timers : Tick(id)
    \/ HistoryClick
    \/ \E t \in DurationChoices, shuffled \in DefaultShuffles :
          DurationClick(t, shuffled)
    \/ \E themeId \in THEMES, shuffled \in DefaultShuffles :
          ThemeClick(themeId, shuffled)
    \/ \E text \in CustomTopics : CustomTopicChange(text)
    \/ CustomTopicSubmit
    \/ \E id \in DOMAIN requests :
          \E shuffled \in GeneratedShuffles : GenerationComplete(id, shuffled)
    \/ \E shuffled \in DefaultShuffles : NewRaceClick(shuffled)
    \/ LeaderboardReset
    \/ Unmount

Spec == Init /\ [][Next]_vars

\* ------------------------------------------- specification: the score store

\* JSON.parse throws a SyntaxError
SyntaxError == [ok |-> FALSE, value |-> <<>>]

\* JSON.parse(localStorage.getItem('typing_scores') || '[]')
JSONparse(isMalformed, stored) ==
    IF isMalformed THEN SyntaxError ELSE [ok |-> TRUE, value |-> stored]

\* getScoreHistory: the parsed item, or the exception of the parse
getScoreHistory(isMalformed, stored) == JSONparse(isMalformed, stored)

nonStoreVars == <<sessionVars, duration, selectedTopic, customTopic, isLoading,
                  timerVars, requestVars, events, mounted, callVars>>

\* saveScore(score) with the next ScoreEntry; the parse is its first
\* statement
StoreAppend ==
    /\ scoreSeq < MaxAppends
    /\ LET parsed == JSONparse(malformed, typing_scores)
       IN  IF parsed.ok
           THEN /\ typing_scores' = saveScore(parsed.value, NewScore(ZeroStats, Captured, scoreSeq + 1))
                /\ UNCHANGED <<malformed, thrown>>
           ELSE /\ thrown' = TRUE
                /\ UNCHANGED <<typing_scores, malformed>>
    /\ scoreSeq' = scoreSeq + 1
    /\ UNCHANGED <<history, nonStoreVars>>

\* setHistory(getScoreHistory())
StoreLoad ==
    /\ LET loaded == getScoreHistory(malformed, typing_scores)
       IN  IF loaded.ok
           THEN /\ history' = loaded.value
                /\ UNCHANGED thrown
           ELSE /\ thrown' = TRUE
                /\ UNCHANGED history
    /\ UNCHANGED <<typing_scores, scoreSeq, malformed, nonStoreVars>>

StoreNext == StoreAppend \/ StoreLoad

StoreSpec == Init /\ [][StoreNext]_vars

\* The store as the page finds it: a list, or a text that is no JSON
StoredInit ==
    /\ malformed \in BOOLEAN
    /\ typing_scores = <<>>
    /\ history = <<>>
    /\ scoreSeq = 0
    /\ thrown = FALSE
    /\ mounted = TRUE
    /\ \E shuffled \in DefaultShuffles : words = InitialWords(shuffled)
    /\ currentIndex = 0
    /\ inputValue = <<>>
    /\ timeLeft = InitialDuration
    /\ status = "idle"
    /\ stats = ZeroStats
    /\ duration = InitialDuration
    /\ selectedTopic = "random"
    /\ customTopic = ""
    /\ isLoading = FALSE
    /\ events = 0
    /\ timerRef = 0
    /\ timers = <<>>
    /\ nextTimerId = 1
    /\ requests = <<>>
    /\ nextRequestId = 1
    /\ callArray = <<>>
    /\ newArray = <<>>

StoredSpec == StoredInit /\ [][StoreNext]_vars

\* --------------------------------------- specification: the matched prefix

\* The words to type and the characters of the drafts
PrefixTargets ==
    { <<"h", "e", "l", "l", "o">>, <<"h", "e">>, <<"l", "o", "L">> }

PrefixChars == {"h", "e", "l", "L", "o"}

\* A session of one word, any of the targets
PrefixInit ==
    /\ \E target \in PrefixTargets :
          words = InitialWords(<<target>>)
    /\ currentIndex = 0
    /\ inputValue = <<>>
    /\ timeLeft = InitialDuration
    /\ status = "idle"
    /\ stats = ZeroStats
    /\ duration = InitialDuration
    /\ selectedTopic = "random"
    /\ customTopic = ""
    /\ isLoading = FALSE
    /\ history = <<>>
    /\ typing_scores = <<>>
    /\ scoreSeq = 0
    /\ events = 0
    /\ timerRef = 0
    /\ timers = <<>>
    /\ nextTimerId = 1
    /\ requests = <<>>
    /\ nextRequestId = 1
    /\ mounted = TRUE
    /\ malformed = FALSE
    /\ thrown = FALSE
    /\ callArray = <<>>
    /\ newArray = <<>>

nonDraftVars == <<status, words, currentIndex, timeLeft, stats, duration,
                  selectedTopic, customTopic, isLoading, timerVars,
                  requestVars, scoreVars, events, pageVars, callVars>>

\* The draft grows by a character, and the word is rendered
PrefixType(c) ==
    /\ Len(inputValue) < MaxDraftLen
    /\ inputValue' = Append(inputValue, c)
    /\ UNCHANGED nonDraftVars

\* The draft loses its last character, and the word is rendered
PrefixErase ==
    /\ inputValue # <<>>
    /\ inputValue' = SubSeq(inputValue, 1, Len(inputValue) - 1)
    /\ UNCHANGED nonDraftVars

PrefixNext ==
    \/ \E c \in PrefixChars : PrefixType(c)
    \/ PrefixErase

PrefixSpec == PrefixInit /\ [][PrefixNext]_vars

\* -------------------------------------------- specification: shuffleArray

ShuffleElems == {"a", "b", "c"}

\* The lists to shuffle
ShuffleInputs == UNION {[1..n -> ShuffleElems] : n \in 0..MaxShuffleLen}

\* The draws of Math.random() in one call on n elements, any value in
\* every iteration
AllDraws(n) == [1..n -> 0..(RandDenom - 1)]

\* shuffleArray was called with any of the lists: const newArray = [...array]
ShuffleInit ==
    /\ \E a \in ShuffleInputs :
          /\ callArray = a
          /\ newArray = a
    /\ \E shuffled \in DefaultShuffles : words = InitialWords(shuffled)
    /\ currentIndex = 0
    /\ inputValue = <<>>
    /\ timeLeft = InitialDuration
    /\ status = "idle"
    /\ stats = ZeroStats
    /\ duration = InitialDuration
    /\ selectedTopic = "random"
    /\ customTopic = ""
    /\ isLoading = FALSE
    /\ history = <<>>
    /\ typing_scores = <<>>
    /\ scoreSeq = 0
    /\ events = 0
    /\ timerRef = 0
    /\ timers = <<>>
    /\ nextTimerId = 1
    /\ requests = <<>>
    /\ nextRequestId = 1
    /\ mounted = TRUE
    /\ malformed = FALSE
    /\ thrown = FALSE

\* A call of shuffleArray(array) with the draws rnd: the loop runs on the copy
\* and the copy is returned
ShuffleCall(rnd) ==
    /\ newArray' = shuffleArray(callArray, rnd)
    /\ UNCHANGED <<callArray, sessionVars, duration, selectedTopic, customTopic,
                   isLoading, timerVars, requestVars, scoreVars, events,
                   pageVars>>

ShuffleNext == \E rnd \in AllDraws(Len(callArray)) : ShuffleCall(rnd)

ShuffleSpec == ShuffleInit /\ [][ShuffleNext]_vars

\* ------------------------------------------------------------------ claims

\* C1: finalize runs exactly once per entry into finished: a step into
\* finished appends exactly one ScoreEntry to the persisted history, and a
\* step that stays in finished appends none.
C1_FinalizeOncePerFinish ==
    [][ /\ (status # "finished" /\ status' = "finished")
            => Len(typing_scores') = Len(typing_scores) + 1
        /\ (status = "finished" /\ status' = "finished")
            => Len(typing_scores') <= Len(typing_scores) ]_vars

\* C2: in every reachable state correctWords + incorrectWords = currentIndex.
C2_CountersMatchCursor ==
    stats.correctWords + stats.incorrectWords = currentIndex

\* C2 witness: after one correct and one incorrect submission.
C2_Witness ==
    /\ currentIndex = 2
    /\ stats.correctWords = 1
    /\ stats.incorrectWords = 1

\* C3: while status is not finished the word at currentIndex is the only
\* active word, every word before it is correct or incorrect, every word
\* after it is pending.
C3_OneActiveWordAtCursor ==
    status # "finished" =>
        \A i \in 0..(Len(words) - 1) :
            /\ i < currentIndex => Word(i).status \in {"correct", "incorrect"}
            /\ i = currentIndex => Word(i).status = "active"
            /\ i > currentIndex => Word(i).status = "pending"

\* C4: while status is not finished, currentIndex is a valid index of words.
C4_CursorInRange ==
    status # "finished" => (0 <= currentIndex /\ currentIndex < Len(words))

\* C4 witness: the cursor has moved past the end of a one-word list it was
\* initialised with, and the list was extended.
C4_Witness ==
    /\ status = "playing"
    /\ currentIndex = 1
    /\ Len(words) = 1 + Len(DEFAULT_WORDS)

\* C5: a playing session changes phase only to finished, and only with the
\* timer at zero.
C5_PlayingExitsOnlyByTimeout ==
    [][ status = "playing" =>
            \/ status' = "playing"
            \/ (status' = "finished" /\ timeLeft' = 0) ]_vars

\* C6: an interval is running only while status is playing.
C6_TimerOnlyWhilePlaying ==
    status # "playing" => DOMAIN timers = {}

\* C7: at most one interval is running, and it is the one timerRef holds
\* (the one endGame cancels).
C7_AtMostOneTimer ==
    /\ Cardinality(DOMAIN timers) <= 1
    /\ DOMAIN timers \subseteq {timerRef}

\* A step that reconfigures the session: a duration click, a theme click or
\* the completion of a word-generation request.
Reconfigures ==
    \/ \E t \in DurationChoices, shuffled \in DefaultShuffles :
          DurationClick(t, shuffled)
    \/ \E themeId \in THEMES, shuffled \in DefaultShuffles :
          ThemeClick(themeId, shuffled)
    \/ \E id \in DOMAIN requests :
          \E shuffled \in GeneratedShuffles : GenerationComplete(id, shuffled)

\* C8: a session leaves idle with the whole duration remaining, and while it
\* is playing and not reconfigured every change of the remaining time is a
\* decrement by one that keeps it playing until the remaining time is 0 and
\* finishes it then: finished on the D-th tick and not before.
C8_FinishesOnTickD ==
    [][ /\ (status = "idle" /\ status' = "playing") => timeLeft' = duration'
        /\ (status = "playing" /\ ~Reconfigures) =>
              \/ (status' = "playing" /\ timeLeft' = timeLeft)
              \/ (status' = "playing" /\ timeLeft' = timeLeft - 1 /\ timeLeft' > 0)
              \/ (status' = "finished" /\ timeLeft = 1 /\ timeLeft' = 0) ]_vars

\* C9: the ScoreEntry appended on entering finished carries the counters of
\* the session, timeSpent = duration, wpm = round(correctWords / duration * 60)
\* and accuracy = round(correctWords / (correctWords + incorrectWords) * 100),
\* 0 when nothing was submitted.
C9_ScoreEntryOfSession ==
    [][ (status # "finished" /\ status' = "finished") =>
            /\ Len(history') = Len(history) + 1
            /\ LET entry == history'[Len(history')]
                   submitted == stats.correctWords + stats.incorrectWords
               IN  /\ entry.correctWords = stats.correctWords
                   /\ entry.incorrectWords = stats.incorrectWords
                   /\ entry.totalKeystrokes = stats.totalKeystrokes
                   /\ entry.timeSpent = duration
                   /\ entry.wpm = Round(stats.correctWords * 60, duration)
                   /\ entry.accuracy = IF submitted = 0 THEN 0
                                       ELSE Round(stats.correctWords * 100, submitted) ]_vars

\* C10: a step from finished to idle leaves a re-initialised session: zero
\* counters, cursor 0, empty draft, the whole duration remaining, a
\* non-empty word list with the first word active and the others pending.
C10_FinishedToIdleReinitialises ==
    [][ (status = "finished" /\ status' = "idle") =>
            /\ stats'.correctWords = 0
            /\ stats'.incorrectWords = 0
            /\ stats'.totalKeystrokes = 0
            /\ currentIndex' = 0
            /\ inputValue' = <<>>
            /\ timeLeft' = duration'
            /\ Len(words') > 0
            /\ words'[1].status = "active"
            /\ \A i \in 2..Len(words') : words'[i].status = "pending" ]_vars

\* C11 as claimed: a submission that leaves fewer than 10 words from the new
\* cursor to the end of the list appends a batch in the same step, and keeps
\* the texts of the words it had and the statuses of all but the submitted
\* word and its successor.
C11_ExtendsWithinTenOfNewCursor ==
    [][ (currentIndex' = currentIndex + 1
           /\ Len(words) - currentIndex' < LookAhead) =>
            /\ Len(words') > Len(words)
            /\ \A i \in 1..Len(words) :
                  /\ words'[i].text = words[i].text
                  /\ i \notin {currentIndex + 1, currentIndex + 2}
                        => words'[i].status = words[i].status ]_vars

\* C11: a submission made while fewer than 10 words remain from the
\* submitted word to the end of the list (fewer than 9 from the new cursor)
\* appends a batch of pending default words in the same step, any other
\* submission leaves the length as it is, and both keep the texts of the
\* words the list had and the statuses of all but the submitted word and its
\* successor.
C11_ExtendsWithinTenOfSubmittedWord ==
    [][ currentIndex' = currentIndex + 1 =>
            /\ Len(words') = IF Len(words) - currentIndex < LookAhead
                             THEN Len(words) + Len(DEFAULT_WORDS)
                             ELSE Len(words)
            /\ \A i \in 1..Len(words) :
                  /\ words'[i].text = words[i].text
                  /\ i \notin {currentIndex + 1, currentIndex + 2}
                        => words'[i].status = words[i].status
            /\ \A i \in (Len(words) + 1)..Len(words') :
                  words'[i].status = "pending" ]_vars

\* C11 witness: a list of ten generated words was left as it was by the
\* submission of its first word and extended by the submission of its second.
C11_Witness ==
    /\ currentIndex = 2
    /\ Len(words) = Len(TenWords) + Len(DEFAULT_WORDS)

\* C12: the completion of a word-generation request that a newer request
\* has superseded leaves words, currentIndex, the counters, timeLeft and
\* status as they are.
C12_SupersededResultDiscarded ==
    [][ \A id \in DOMAIN requests :
            (id \notin DOMAIN requests' /\ id < nextRequestId - 1) =>
                UNCHANGED <<words, currentIndex, stats, timeLeft, status>> ]_vars

\* The texts of a list of WordObjects
Texts(ws) == [i \in 1..Len(ws) |-> ws[i].text]

\* How often x occurs in the sequence a
Count(a, x) == Cardinality({i \in 1..Len(a) : a[i] = x})

\* a and b have the same length and the same elements, each as often
IsPermutation(a, b) ==
    /\ Len(a) = Len(b)
    /\ \A i \in 1..Len(a) : Count(a, a[i]) = Count(b, a[i])

\* C13: the word list is never empty, and the completion of a
\* word-generation request of the mounted component leaves status idle and a
\* list whose first word is active and whose texts are a reordering of what
\* the service resolved to, or of DEFAULT_WORDS when that is empty (the call
\* failed, or no word was left).
C13_FallbackToDefaultWords ==
    /\ [](Len(words) > 0)
    /\ [][ (mounted /\ \E id \in DOMAIN requests : id \notin DOMAIN requests') =>
              /\ status' = "idle"
              /\ Len(words') > 0
              /\ words'[1].status = "active"
              /\ \E newWords \in GeneratedWords :
                    IsPermutation(Texts(words'),
                                  IF newWords = <<>> THEN DEFAULT_WORDS
                                  ELSE newWords) ]_vars

\* C13 witness: the only event was a click on a generated theme, its request
\* has completed, and the list is a reordering of DEFAULT_WORDS.
C13_Witness ==
    /\ events = 1
    /\ nextRequestId = 2
    /\ requests = <<>>
    /\ ~isLoading
    /\ status = "idle"
    /\ IsPermutation(Texts(words), DEFAULT_WORDS)

\* C14: handleInputChange with a value that ends in a space, in status idle
\* or playing, marks the word at the cursor correct if the trimmed value is
\* its text and incorrect otherwise, adds 1 to the matching one of
\* correctWords and incorrectWords and nothing to the other, adds the length
\* of the trimmed value plus 1 to totalKeystrokes, adds 1 to currentIndex
\* and empties the draft; a lone space counts as an incorrect word of one
\* keystroke.
C14_SubmitClassifiesAndAdvances ==
    [][ \A val \in InputValues(Word(currentIndex).text), shuffled \in DefaultShuffles :
          (EndsWithSpace(val) /\ handleInputChange(val, shuffled)) =>
              LET typed == Trim(val)
                  matches == typed = Word(currentIndex).text
              IN  /\ status \in {"idle", "playing"}
                  /\ words'[currentIndex + 1].status =
                        (IF matches THEN "correct" ELSE "incorrect")
                  /\ stats'.correctWords =
                        stats.correctWords + (IF matches THEN 1 ELSE 0)
                  /\ stats'.incorrectWords =
                        stats.incorrectWords + (IF matches THEN 0 ELSE 1)
                  /\ stats'.totalKeystrokes = stats.totalKeystrokes + Len(typed) + 1
                  /\ currentIndex' = currentIndex + 1
                  /\ inputValue' = <<>>
                  /\ (val = <<SPACE>>) =>
                        /\ words'[currentIndex + 1].status = "incorrect"
                        /\ stats'.totalKeystrokes = stats.totalKeystrokes + 1 ]_vars

\* C14 witness: the first word was submitted as it is and the second as a
\* lone space.
C14_Witness ==
    /\ currentIndex = 2
    /\ inputValue = <<>>
    /\ words[1].status = "correct"
    /\ words[2].status = "incorrect"
    /\ stats.correctWords = 1
    /\ stats.incorrectWords = 1
    /\ stats.totalKeystrokes = Len(words[1].text) + 2

\* C15: handleInputChange with a value that does not end in a space makes
\* it the draft if it is at most 3 characters longer than the word at the
\* cursor and keeps the previous draft otherwise, and leaves currentIndex,
\* the counters and the words as they are; in every reachable state the
\* draft is at most 3 characters longer than the word at the cursor.
C15_DraftWithinSlack ==
    /\ [](Len(inputValue) <= Len(Word(currentIndex).text) + SlackBuffer)
    /\ [][ \A val \in InputValues(Word(currentIndex).text), shuffled \in DefaultShuffles :
             (~EndsWithSpace(val) /\ handleInputChange(val, shuffled)) =>
                 /\ inputValue' =
                       IF Len(val) <= Len(Word(currentIndex).text) + SlackBuffer
                       THEN val ELSE inputValue
                 /\ UNCHANGED <<currentIndex, words>>
                 /\ stats'.correctWords = stats.correctWords
                 /\ stats'.incorrectWords = stats.incorrectWords
                 /\ stats'.totalKeystrokes = stats.totalKeystrokes ]_vars

\* C15 witness: the draft is the word overtyped by three characters, after a
\* second input event.
C15_Witness ==
    /\ events >= 2
    /\ currentIndex = 0
    /\ Len(inputValue) = Len(Word(currentIndex).text) + SlackBuffer

\* C16 (StoreSpec): after any number of saveScore calls the stored list has
\* at most 100 entries, and they are the last ones saved, in the order they
\* were saved.
C16_StoreKeepsLastHundred ==
    /\ Len(typing_scores) <= HistoryCap
    /\ Len(typing_scores) = (IF scoreSeq <= HistoryCap THEN scoreSeq ELSE HistoryCap)
    /\ \A i \in 1..Len(typing_scores) :
          typing_scores[i].id = scoreSeq - Len(typing_scores) + i

\* C16 witness: the 101st entry was saved, and the first one is gone.
C16_Witness ==
    /\ scoreSeq = HistoryCap + 1
    /\ Len(typing_scores) = HistoryCap
    /\ typing_scores[1].id = 2
    /\ typing_scores[HistoryCap].id = HistoryCap + 1

Min(a, b) == IF a <= b THEN a ELSE b

\* The length of the longest common prefix of a and b
CommonPrefixLength(a, b) ==
    CHOOSE k \in 0..Min(Len(a), Len(b)) :
        /\ \A i \in 1..k : a[i] = b[i]
        /\ k = Min(Len(a), Len(b)) \/ a[k + 1] # b[k + 1]

\* C18 (PrefixSpec): for every word to type and every draft the matched part
\* is the longest common prefix of the two: characters after the first
\* mismatch never count, and it is never longer than the word or the draft;
\* for "hello" and "heLLo" its length is 2.
C18_MatchedPrefixIsCommonPrefix ==
    LET wordText == Word(currentIndex).text
        k == CommonPrefixLength(wordText, inputValue)
    IN  /\ Len(MatchPart) = k
        /\ MatchPart = SubSeq(inputValue, 1, k)
        /\ Len(MatchPart) <= Min(Len(wordText), Len(inputValue))
        /\ MatchPart \o RemainingPart = wordText
        /\ (wordText = <<"h", "e", "l", "l", "o">>
              /\ inputValue = <<"h", "e", "L", "L", "o">>) => Len(MatchPart) = 2

\* C18 witness: "hello" with the draft "heLLo".
C18_Witness ==
    /\ Word(currentIndex).text = <<"h", "e", "l", "l", "o">>
    /\ inputValue = <<"h", "e", "L", "L", "o">>
    /\ Len(MatchPart) = 2

\* C19 (ShuffleSpec): for every list and every sequence of draws what
\* shuffleArray returns has the length of its argument and the same
\* elements, each as often, and the argument is left as it was.
C19_ShuffleIsPermutation ==
    /\ [](Len(newArray) = Len(callArray) /\ IsPermutation(newArray, callArray))
    /\ [][callArray' = callArray]_vars

\* C19 witness: a list of three different elements came back reversed in
\* its first and last element.
C19_Witness ==
    /\ callArray = <<"a", "b", "c">>
    /\ newArray = <<"c", "b", "a">>

\* C20: while a word-generation request is outstanding no step takes status
\* from idle to playing, and no input event is handled.
C20_NoStartWhileRequestOutstanding ==
    [][ requests # <<>> =>
            /\ ~(status = "idle" /\ status' = "playing")
            /\ \A val \in InputValues(Word(currentIndex).text), shuffled \in DefaultShuffles :
                  ~handleInputChange(val, shuffled) ]_vars

\* C21: the words a submission appends all occur in the list as it was
\* before, i.e. the batch is drawn from the list the session was initialised
\* from.
C21_BatchFromSessionList ==
    [][ (currentIndex' = currentIndex + 1 /\ Len(words') > Len(words)) =>
            \A i \in (Len(words) + 1)..Len(words') :
                \E j \in 1..Len(words) : words'[i].text = words[j].text ]_vars

\* C22: with a generated theme selected and no request outstanding, New Race
\* and a change of the duration while idle leave a list made of words of the
\* list as it was before (the theme's words), and timeLeft equal to the
\* duration now configured.
C22_ReinitialisesFromTopicWords ==
    [][ ( /\ selectedTopic \in {"tech", "nature"}
          /\ requests = <<>>
          /\ \/ \E shuffled \in DefaultShuffles : NewRaceClick(shuffled)
             \/ (status = "idle" /\ duration' # duration) ) =>
            /\ \A i \in 1..Len(words') :
                  \E j \in 1..Len(words) : words'[i].text = words[j].text
            /\ timeLeft' = duration' ]_vars

\* C25: in every reachable state 0 <= timeLeft <= duration.
C25_TimeLeftWithinDuration ==
    /\ 0 <= timeLeft
    /\ timeLeft <= duration

\* C23: once the component is unmounted or the session is finished no
\* interval is left running.
C23_TeardownCancelsTimers ==
    (~mounted \/ status = "finished") => DOMAIN timers = {}

\* C24 (StoredSpec): no call of getScoreHistory or saveScore throws; with
\* a stored text that is no JSON, loading gives the empty history and saving
\* leaves a stored list of the one new entry.
C24_MalformedStoreTolerated ==
    /\ [](~thrown)
    /\ [][ (malformed /\ StoreLoad) => history' = <<>> ]_vars
    /\ [][ (malformed /\ StoreAppend) =>
              (~malformed' /\ Len(typing_scores') = 1) ]_vars

====
